---- MODULE Spec2Model ----
(***************************************************************************)
(* A model of install.py: a sequential installation script that plans a    *)
(* two-partition layout (ESP + encrypted root), formats it, mounts it at   *)
(* /mnt, populates and configures the target through the Installer, and    *)
(* finally runs a post-install script inside the target with arch-chroot.  *)
(*                                                                         *)
(* Sizes are byte counts.  Paths are sequences of path components.  Text   *)
(* typed by the operator is a sequence of one-character strings.           *)
(***************************************************************************)
EXTENDS Integers, Sequences, FiniteSets, TLC

\* ------------------------------------------------------------------ bounds
MaxDevices == 2
MaxDelta == 1
SmallDiskMiB == 512
MaxAttempts == 2

\* ------------------------------------------------------- program constants
BootStartMiB == 1
BootLengthMiB == 1024
TrailingMiB == 1

MiB == 1024 * 1024

\* ----------------------------------------------------------------- helpers
Range(s) == {s[i] : i \in 1..Len(s)}

IndexOf(s, x) == IF x \in Range(s) THEN CHOOSE i \in 1..Len(s) : s[i] = x ELSE 0

Prefixes(p) == {SubSeq(p, 1, n) : n \in 1..Len(p)}

Parent(p) == SubSeq(p, 1, Len(p) - 1)

\* Text is a sequence of characters.
username_default == <<"h", "e", "n", "n", "i", "n", "g">>
hostname_default == <<"a", "r", "c", "h">>
mirrors_default == <<"N", "o">>

IsSpace(c) == c = " "

RECURSIVE lstrip(_)
lstrip(s) == IF s # <<>> /\ IsSpace(Head(s)) THEN lstrip(Tail(s)) ELSE s

RECURSIVE rstrip(_)
rstrip(s) ==
    IF s # <<>> /\ IsSpace(s[Len(s)]) THEN rstrip(SubSeq(s, 1, Len(s) - 1)) ELSE s

strip(s) == rstrip(lstrip(s))

lower_char(c) ==
    CASE c = "Y" -> "y"
      [] c = "N" -> "n"
      [] OTHER -> c

lower(s) == [i \in 1..Len(s) |-> lower_char(s[i])]

startswith(s, c) == s # <<>> /\ s[1] = c

\* input_with_default: the typed line, stripped, or the default when empty.
input_with_default(typed, default) ==
    IF strip(typed) # <<>> THEN strip(typed) ELSE default

\* --------------------------------------------------------- the environment
SectorSizes == {512, 4096}

\* The smallest capacity that leaves a non-negative remainder for root.
Threshold == (BootStartMiB + BootLengthMiB + TrailingMiB) * MiB

Capacities(sector) ==
    {Threshold + d * sector : d \in (0 - MaxDelta)..MaxDelta} \cup {SmallDiskMiB * MiB}

DeviceSet ==
    UNION {{[total_size |-> c, sector_size |-> s] : c \in Capacities(s)} : s \in SectorSizes}

\* A disk with room to spare.
LargeDevice == [total_size |-> Threshold + SmallDiskMiB * MiB, sector_size |-> 512]

\* device_handler.devices: none, or up to MaxDevices of which the first is
\* any device of DeviceSet and the others are large disks.
DeviceLists ==
    {<<>>} \cup
    UNION {{[i \in 1..n |-> IF i = 1 THEN d ELSE LargeDevice] : d \in DeviceSet}
             : n \in 1..MaxDevices}

HostnameInputs == {<<>>, <<"p", "c">>}
UsernameInputs == {<<>>, <<" ">>, <<" ", "b", "o", "b", " ">>}
MirrorInputs == {<<>>, <<"Y", "e", "s">>, <<" ", "y">>, <<"n">>}

\* What the operator can type at the device prompt: text that is not an
\* integer, or an integer.
NotANumber == [is_int |-> FALSE, value |-> 0]
ChoiceInputs == {NotANumber} \cup {[is_int |-> TRUE, value |-> n] : n \in 0..(MaxDevices + 1)}

ExitCodes == {0, 1, 2}
\* ------------------------------------------------------------- the script
\* The statements of the script, top to bottom, with their source lines.
Script == <<
    "uefi_check",                      \* 37-38
    "get_devices",                     \* 46-48
    "select_device",                   \* 51-74
    "prompt_inputs",                   \* 77-82
    "add_boot_partition",              \* 85-105
    "add_root_partition",              \* 108-119
    "configure_encryption",            \* 122-134
    "perform_filesystem_operations",   \* 137-138
    "blkid",                           \* 141
    "lspci",                           \* 147-154
    "Installer",                       \* 157-161
    "mount_ordered_layout",            \* 165
    "write_pacman_conf",               \* 168-187
    "minimal_installation",            \* 190
    "write_paru_conf",                 \* 193-204
    "write_cmdline",                   \* 207-210
    "write_preset",                    \* 213-230
    "add_additional_packages",         \* 233
    "add_bootloader",                  \* 236
    "mkdir_efi_linux",                 \* 239-240
    "append_mkinitcpio_conf",          \* 243-247
    "plymouth_set_default_theme",      \* 250
    "write_plymouthd_conf",            \* 253-256
    "mkinitcpio_P",                    \* 259
    "write_loader_conf",               \* 262-269
    "install_profile_config",          \* 272-273
    "create_users",                    \* 276-277
    "set_user_password",               \* 280-281
    "enable_service",                  \* 284
    "set_timezone",                    \* 287
    "setup_swap",                      \* 289
    "fallocate_swapfile",              \* 295
    "chmod_swapfile",                  \* 296
    "mkswap",                          \* 297
    "append_fstab",                    \* 300
    "copy_payload",                    \* 303-306
    "chmod_payload",                   \* 309
    "Installer_exit",                  \* 161 (end of the with block)
    "run_post_install" >>              \* 328-360

SwapStmts(seq, a, b) ==
    [i \in 1..Len(seq) |-> IF seq[i] = a THEN b ELSE IF seq[i] = b THEN a ELSE seq[i]]

\* Mutants of the execution order.
ProgramMountBeforeFormat ==
    SwapStmts(Script, "perform_filesystem_operations", "mount_ordered_layout")
ProgramTimezoneBeforeServices == SwapStmts(Script, "enable_service", "set_timezone")
ProgramUkiBeforeHooks == SwapStmts(Script, "mkinitcpio_P", "append_mkinitcpio_conf")
ProgramBlkidBeforeFormat == SwapStmts(Script, "blkid", "perform_filesystem_operations")

\* The interpreter runs the statements in source order, each to completion.
Program == Script

Pos(s) == IndexOf(Script, s)

mountpoint == <<"mnt">>

VARIABLES
    pc,                 \* index in Program of the next statement
    outcome,            \* "running", or "exit" once the interpreter has ended
    exit_status,        \* the interpreter's exit status (0 normal, 1 uncaught exception)
    failed_at,          \* the statement whose error ended the run, or "none"
    done,               \* the statements that returned normally, in order
    uefi,               \* /sys/firmware/efi exists
    devices,            \* device_handler.devices
    mounted_before,     \* the mounts under the target when the script starts
    typed_secrets,      \* what is typed at the three getpass prompts, per run
    attempts,           \* rejected answers at the device prompt
    selected_device,    \* index into devices, 0 while unset
    choice,             \* the last integer read at the device prompt
    secrets,            \* sudo_password, root_password, encryption_password, per run
    hostname,
    sudo_user,
    use_local_mirrors,
    partitions,         \* device_modification.partitions
    disk_encryption,    \* disk_config.disk_encryption
    fs_ops_issued,      \* perform_filesystem_operations has been called
    mounts,             \* the live mounts under the target
    dirs,               \* directories that exist under the target
    files,              \* files that exist under the target
    fstab,              \* the entries of the target's /etc/fstab
    users,              \* accounts created in the target
    executable,         \* target paths marked executable
    payload_has_script, \* /tmp/archinstall held post_install.sh when it was copied
    printed,            \* messages of the post-install section
    popen,              \* argument vectors handed to subprocess.Popen
    returncode,         \* process.returncode, -1 while there is none
    mount_ops,          \* mount operations performed by this run
    part_uuid,          \* the UUID on the root partition of the selected device
    encrypted_uuid,     \* the output of blkid kept by the script
    view                \* per run: the files the script wrote and what it printed

ctl == <<pc, outcome, exit_status, failed_at, done>>
env == <<uefi, devices, mounted_before, typed_secrets>>
inp == <<attempts, selected_device, choice, secrets, hostname, sudo_user, use_local_mirrors>>
plan == <<partitions, disk_encryption>>
tgt == <<fs_ops_issued, mounts, dirs, files, fstab, users, executable>>
out == <<printed, popen, returncode>>
pay == <<payload_has_script>>
dsk == <<mount_ops, part_uuid, encrypted_uuid>>
vars == <<ctl, env, inp, plan, tgt, out, pay, dsk, view>>

\* The two runs compared for what they disclose: same machine, same
\* answers, different secrets.
Runs == {1, 2}

Secrets(s, r, e) == [sudo_password |-> s, root_password |-> r, encryption_password |-> e]

SecretPairs ==
    { (1 :> Secrets("s1", "r1", "e1")) @@ (2 :> Secrets("s2", "r2", "e2")),
      (1 :> Secrets("s1", "r1", "e1")) @@ (2 :> Secrets("s1", "r1", "e2")) }

\* What an earlier, completed run of the script left mounted under /mnt.
MountedByEarlierRun ==
    { [mountpoint |-> <<>>, device |-> <<"mapper", "root">>],
      [mountpoint |-> <<"boot">>, device |-> <<"raw", "boot">>] }

InitCommon ==
    /\ pc = 1
    /\ outcome = "running"
    /\ exit_status = 0
    /\ failed_at = "none"
    /\ done = <<>>
    /\ uefi \in BOOLEAN
    /\ devices \in DeviceLists
    /\ payload_has_script = FALSE
    /\ typed_secrets \in SecretPairs
    /\ attempts = 0
    /\ selected_device = 0
    /\ choice = 0
    /\ secrets = [r \in Runs |-> Secrets("", "", "")]
    /\ hostname = <<>>
    /\ sudo_user = <<>>
    /\ use_local_mirrors = FALSE
    /\ partitions = <<>>
    /\ disk_encryption = [partitions |-> {}, applied |-> 0]
    /\ fs_ops_issued = FALSE
    /\ files = {}
    /\ fstab = <<>>
    /\ users = {}
    /\ executable = {}
    /\ printed = {}
    /\ popen = <<>>
    /\ returncode = 0 - 1
    /\ mount_ops = 0
    /\ encrypted_uuid = "unset"
    /\ view = [r \in Runs |-> [files |-> <<>>, prints |-> {}, handed |-> {}]]

\* A machine on which nothing is mounted under the target.
Init ==
    /\ InitCommon
    /\ mounted_before = {}
    /\ mounts = {}
    /\ dirs = {}
    /\ part_uuid \in {"none", "uuid_old"}

\* A machine on which an earlier run left the target fully mounted.
InitRerun ==
    /\ InitCommon
    /\ mounted_before = MountedByEarlierRun
    /\ mounts = MountedByEarlierRun
    /\ dirs = {mountpoint \o m.mountpoint : m \in MountedByEarlierRun}
    /\ part_uuid = "uuid_old"

At(s) == outcome = "running" /\ pc <= Len(Program) /\ Program[pc] = s

\* The statement returned normally: the interpreter moves to the next one.
Complete(s) ==
    /\ done' = Append(done, s)
    /\ pc' = pc + 1
    /\ UNCHANGED <<outcome, exit_status, failed_at>>

\* The statement is skipped by its `if`: nothing is recorded.
Skip == pc' = pc + 1 /\ UNCHANGED <<outcome, exit_status, failed_at, done>>

\* Mutant: the context manager swallows the exception and the script goes
\* on after the with block.
RaiseSuppressed(s) ==
    /\ failed_at' = s
    /\ pc' = IndexOf(Script, "run_post_install")
    /\ UNCHANGED <<outcome, exit_status, done>>

\* An exception that nothing catches (the Installer context manager does not
\* suppress it): the interpreter prints the traceback and exits with status 1.
Raise(s) ==
    /\ outcome' = "exit"
    /\ exit_status' = 1
    /\ failed_at' = s
    /\ UNCHANGED <<pc, done>>

\* 37-38
UefiCheck ==
    /\ At("uefi_check")
    /\ IF uefi THEN Complete("uefi_check") ELSE Raise("uefi_check")
    /\ UNCHANGED <<env, pay, inp, plan, tgt, out, dsk, view>>

\* 46-48
GetDevices ==
    /\ At("get_devices")
    /\ IF devices # <<>> THEN Complete("get_devices") ELSE Raise("get_devices")
    /\ UNCHANGED <<env, pay, inp, plan, tgt, out, dsk, view>>

\* ------------------------------------------------- what a run discloses
\* print(...): the text shown in run r.  No print of the script formats a
\* password.
print_text(what, r) == what

Show(v, whats) == [r \in Runs |-> [v[r] EXCEPT !.prints = @ \cup {print_text(w, r) : w \in whats}]]

\* A Password(plaintext=...) value handed to a collaborator in run r.
Hand(v, who, field) ==
    [r \in Runs |-> [v[r] EXCEPT !.handed = @ \cup {<<who, secrets[r][field]>>}]]

\* Mutant: 0 is accepted as a device number.
valid_choice_from_zero(c, n) == 0 <= c /\ c <= n

\* 65
valid_choice(c, n) == 1 <= c /\ c <= n

\* devices[i] with Python's indexing, as an index of the model's sequence.
list_index(n, i) == IF i < 0 THEN n + i + 1 ELSE i + 1

\* 51-74
SelectDevice ==
    /\ At("select_device")
    /\ IF Len(devices) = 1
       THEN /\ selected_device' = list_index(Len(devices), 0)
            /\ Complete("select_device")
            /\ view' = Show(view, {"Only one device found"})
            /\ UNCHANGED <<attempts, choice>>
       ELSE \E typed \in ChoiceInputs :
              IF typed.is_int
              THEN /\ choice' = typed.value
                   /\ IF valid_choice(typed.value, Len(devices))
                      THEN /\ view' = Show(view, {"Available devices"})
                           /\ selected_device' = list_index(Len(devices), typed.value - 1)
                           /\ Complete("select_device")
                           /\ UNCHANGED attempts
                      ELSE /\ view' = Show(view, {"Available devices", "Invalid number. Please try again."})
                           /\ attempts < MaxAttempts
                           /\ attempts' = attempts + 1
                           /\ UNCHANGED <<selected_device, ctl>>
              ELSE /\ view' = Show(view, {"Available devices", "Please enter a valid number."})
                   /\ attempts < MaxAttempts
                   /\ attempts' = attempts + 1
                   /\ UNCHANGED <<choice, selected_device, ctl>>
    /\ UNCHANGED <<secrets, hostname, sudo_user, use_local_mirrors>>
    /\ UNCHANGED <<env, pay, plan, tgt, out, dsk>>

device == devices[selected_device]

\* 77-82
PromptInputs ==
    /\ At("prompt_inputs")
    /\ \E h \in HostnameInputs, u \in UsernameInputs, m \in MirrorInputs :
         /\ hostname' = input_with_default(h, hostname_default)
         /\ sudo_user' = input_with_default(u, username_default)
         /\ use_local_mirrors' = startswith(lower(input_with_default(m, mirrors_default)), "y")
    /\ secrets' = typed_secrets
    /\ view' = Show(view, { "Enter hostname [arch]: ", "Enter sudo user username [henning]: ",
                            "Use local offline mirrors for pacman and AUR? [No]: ",
                            "Enter sudo user password: ", "Enter root password: ",
                            "Enter disk encryption password: " })
    /\ Complete("prompt_inputs")
    /\ UNCHANGED <<attempts, selected_device, choice>>
    /\ UNCHANGED <<env, pay, plan, tgt, out, dsk>>

\* ---------------------------------------------------------------- planning
\* Size(value, unit, sector_size) resolved to bytes.
Size(value, unit) == value * unit

\* The result of Size arithmetic that would be negative.
SizeError == 0 - 1

\* Size.__sub__: a negative result is an error, never a clamp.
SizeSub(a, b) == IF a = SizeError \/ b = SizeError \/ a < b THEN SizeError ELSE a - b

\* 94-95
boot_start == Size(BootStartMiB, MiB)
boot_length == Size(BootLengthMiB, MiB)

\* Mutant: root starts where boot starts.
root_start_at_boot_start == boot_start

\* 108
root_start == boot_start + boot_length

\* 109
root_length(total_disk_size) ==
    SizeSub(SizeSub(total_disk_size, root_start), Size(TrailingMiB, MiB))

\* 96-104
boot_partition ==
    [ name |-> "boot",
      start |-> boot_start,
      length |-> boot_length,
      mountpoint |-> <<"boot">>,
      fs_type |-> "fat32",
      flags |-> {"ESP"} ]

\* 110-118
root_partition(total_disk_size) ==
    [ name |-> "root",
      start |-> root_start,
      length |-> root_length(total_disk_size),
      mountpoint |-> <<>>,
      fs_type |-> "ext4",
      flags |-> {} ]

\* 85-105
AddBootPartition ==
    /\ At("add_boot_partition")
    /\ partitions' = Append(partitions, boot_partition)
    /\ Complete("add_boot_partition")
    /\ UNCHANGED disk_encryption
    /\ UNCHANGED <<env, pay, inp, tgt, out, dsk, view>>

\* 108-119
AddRootPartition ==
    /\ At("add_root_partition")
    /\ IF root_length(device.total_size) = SizeError
       THEN /\ Raise("add_root_partition")
            /\ UNCHANGED partitions
       ELSE /\ partitions' = Append(partitions, root_partition(device.total_size))
            /\ Complete("add_root_partition")
    /\ UNCHANGED disk_encryption
    /\ UNCHANGED <<env, pay, inp, tgt, out, dsk, view>>

\* Mutant: every planned partition is handed to DiskEncryption.
encrypt_every_partition == {"boot", "root"}

\* 131: the partitions handed to DiskEncryption
encrypted_partitions == {"root"}

\* 122-134
ConfigureEncryption ==
    /\ At("configure_encryption")
    /\ disk_encryption' = [ partitions |-> encrypted_partitions,
                            applied |-> disk_encryption.applied + 1 ]
    /\ view' = Hand(view, "DiskEncryption", "encryption_password")
    /\ Complete("configure_encryption")
    /\ UNCHANGED partitions
    /\ UNCHANGED <<env, pay, inp, tgt, out, dsk>>

\* The UUID of the LUKS container this run creates on the root partition.
created_uuid == "uuid_new"

\* 137-138: the call wipes the device and creates the partitions, the LUKS
\* container and the filesystems, or raises.  The new filesystems are
\* mounted nowhere: when the call returns, what was mounted from the device
\* before is released and the target tree is empty.
PerformFilesystemOperations ==
    /\ At("perform_filesystem_operations")
    /\ fs_ops_issued' = TRUE
    /\ \/ /\ mounts' = {}
          /\ dirs' = {}
          /\ files' = {}
          /\ part_uuid' = created_uuid
          /\ Complete("perform_filesystem_operations")
       \/ /\ part_uuid' \in {part_uuid, "none"}
          /\ Raise("perform_filesystem_operations")
          /\ UNCHANGED <<mounts, dirs, files>>
    /\ UNCHANGED <<fstab, users, executable>>
    /\ UNCHANGED <<mount_ops, encrypted_uuid>>
    /\ UNCHANGED <<env, pay, inp, plan, out, view>>

\* 141: blkid prints the UUID of root_partition.dev_path; it exits non-zero
\* when the partition carries none, and check_output then raises.
Blkid ==
    /\ At("blkid")
    /\ \E ok \in BOOLEAN :
         IF ok /\ part_uuid # "none"
         THEN /\ encrypted_uuid' = part_uuid
              /\ Complete("blkid")
         ELSE /\ Raise("blkid")
              /\ UNCHANGED encrypted_uuid
    /\ UNCHANGED <<mount_ops, part_uuid>>
    /\ UNCHANGED <<env, pay, inp, plan, tgt, out, view>>

\* 147: subprocess.check_output returns or raises.
CheckOutputs == {"lspci"}

CheckOutput ==
    \E s \in CheckOutputs :
      /\ At(s)
      /\ \E ok \in BOOLEAN : IF ok THEN Complete(s) ELSE Raise(s)
      /\ UNCHANGED <<env, pay, inp, plan, tgt, out, dsk, view>>

\* ---------------------------------------------------------- the with block
\* Installer methods the model gives no effect beyond returning or raising.
InstallerCalls ==
    { "Installer", "add_additional_packages", "install_profile_config",
      "set_user_password", "enable_service", "set_timezone", "setup_swap",
      "Installer_exit" }

InstallerCall ==
    \E s \in InstallerCalls :
      /\ At(s)
      /\ \E ok \in BOOLEAN :
           IF ok
           THEN /\ Complete(s)
                /\ view' = IF s = "set_user_password"
                           THEN Hand(view, "set_user_password", "root_password")
                           ELSE view
           ELSE Raise(s) /\ UNCHANGED view
      /\ UNCHANGED <<env, pay, inp, plan, tgt, out, dsk>>

\* The device a partition is reached through once encryption is applied.
DevicePath(p) ==
    IF p.name \in disk_encryption.partitions
    THEN <<"mapper", p.name>>
    ELSE <<"raw", p.name>>

MountEntries ==
    {[mountpoint |-> p.mountpoint, device |-> DevicePath(p)] : p \in Range(partitions)}

\* Parents mount before children: ascending path depth.
order_for_mount(entries) ==
    CHOOSE s \in [1..Cardinality(entries) -> entries] :
      /\ \A i, j \in DOMAIN s : i # j => s[i] # s[j]
      /\ \A i, j \in DOMAIN s : i < j => Len(s[i].mountpoint) <= Len(s[j].mountpoint)

\* mount() checks membership before acting.
is_mounted(m, e) == \E x \in m : x.mountpoint = e.mountpoint

\* 165: every entry not yet mounted is mounted, in order; a failing mount
\* leaves the earlier mounts of the pass in place.
MountOrderedLayout ==
    /\ At("mount_ordered_layout")
    /\ LET order == order_for_mount(MountEntries)
       IN \E n \in 0..Len(order) :
            LET acted == {i \in 1..n : ~is_mounted(mounts, order[i])}
            IN /\ mounts' = mounts \cup {order[i] : i \in acted}
               /\ mount_ops' = mount_ops + Cardinality(acted)
               /\ dirs' = dirs \cup {mountpoint \o order[i].mountpoint : i \in 1..n}
               /\ IF n = Len(order)
                  THEN Complete("mount_ordered_layout")
                  ELSE Raise("mount_ordered_layout")
    /\ UNCHANGED <<fs_ops_issued, files, fstab, users, executable>>
    /\ UNCHANGED <<part_uuid, encrypted_uuid>>
    /\ UNCHANGED <<env, pay, inp, plan, out, view>>

\* 190: pacstrap populates the target root.
BaseDirs == {mountpoint \o <<"etc">>, mountpoint \o <<"usr">>, mountpoint \o <<"opt">>}

\* Mutant: a failed base population tears the target down.
MinimalInstallationWithTeardown ==
    /\ At("minimal_installation")
    /\ \E ok \in BOOLEAN :
         IF ok
         THEN /\ dirs' = dirs \cup BaseDirs
              /\ files' = files \cup {mountpoint \o <<"etc", "mkinitcpio.conf">>}
              /\ Complete("minimal_installation")
              /\ UNCHANGED mounts
         ELSE /\ Raise("minimal_installation")
              /\ mounts' = {}
              /\ UNCHANGED <<dirs, files>>
    /\ UNCHANGED <<fs_ops_issued, fstab, users, executable>>
    /\ UNCHANGED <<env, pay, inp, plan, out, dsk, view>>

MinimalInstallation ==
    /\ At("minimal_installation")
    /\ \E ok \in BOOLEAN :
         IF ok
         THEN /\ dirs' = dirs \cup BaseDirs
              /\ files' = files \cup {mountpoint \o <<"etc", "mkinitcpio.conf">>}
              /\ Complete("minimal_installation")
         ELSE /\ Raise("minimal_installation")
              /\ UNCHANGED <<dirs, files>>
    /\ UNCHANGED <<fs_ops_issued, mounts, fstab, users, executable>>
    /\ UNCHANGED <<env, pay, inp, plan, out, dsk, view>>

\* 236: bootctl install creates the loader tree on the ESP.
BootloaderDirs == {mountpoint \o <<"boot", "EFI">>, mountpoint \o <<"boot", "loader">>}

AddBootloader ==
    /\ At("add_bootloader")
    /\ \E ok \in BOOLEAN :
         IF ok
         THEN /\ dirs' = dirs \cup BootloaderDirs
              /\ Complete("add_bootloader")
         ELSE /\ Raise("add_bootloader")
              /\ UNCHANGED dirs
    /\ UNCHANGED <<fs_ops_issued, mounts, files, fstab, users, executable>>
    /\ UNCHANGED <<env, pay, inp, plan, out, dsk, view>>

\* Mutant: the passphrase is written to the kernel command line.
file_text_with_passphrase(s, r) ==
    IF s = "write_cmdline"
    THEN <<"cryptdevice=UUID=", encrypted_uuid, ":cryptroot cryptkey=", secrets[r].encryption_password>>
    ELSE <<s>>

\* 33-34
PACMAN_MIRROR == "192.168.1.100"
AUR_MIRROR == "192.168.1.100"

\* 171-187, 196-204, 210, 217-230, 245-247, 256, 264-269: the text written
\* by each statement in run r, as its literal parts and interpolated values.
file_text(s, r) ==
    CASE s = "write_pacman_conf" ->
           <<"[options] ... [core] Server = http://", PACMAN_MIRROR, "/$repo/os/$arch ...">>
      [] s = "write_paru_conf" ->
           <<"[options] ... [bin] Server = http://", AUR_MIRROR, "/aur">>
      [] s = "write_cmdline" ->
           <<"cryptdevice=UUID=", encrypted_uuid,
             ":cryptroot root=/dev/mapper/cryptroot rw quiet splash ...">>
      [] s = "write_preset" -> <<"# mkinitcpio preset file for the 'linux' package ...">>
      [] s = "append_mkinitcpio_conf" ->
           <<"HOOKS=(base udev autodetect modconf kms plymouth block encrypt filesystems keyboard fsck)",
             "MODULES=(driver)">>
      [] s = "write_plymouthd_conf" -> <<"[Daemon] Theme=spinner ShowDelay=0">>
      [] s = "write_loader_conf" -> <<"default arch-linux*.efi timeout 1 console-mode max editor no">>

\* The files the script writes itself: path, whether the statement is
\* guarded by use_local_mirrors, whether the parent is created first.
FileWrites ==
    [ write_pacman_conf |->
        [path |-> mountpoint \o <<"etc", "pacman.conf">>, mirrors_only |-> TRUE, mkdir |-> FALSE],
      write_paru_conf |->
        [path |-> mountpoint \o <<"etc", "paru.conf">>, mirrors_only |-> TRUE, mkdir |-> FALSE],
      write_cmdline |->
        [path |-> mountpoint \o <<"etc", "kernel", "cmdline">>, mirrors_only |-> FALSE, mkdir |-> TRUE],
      write_preset |->
        [path |-> mountpoint \o <<"etc", "mkinitcpio.d", "linux.preset">>, mirrors_only |-> FALSE, mkdir |-> TRUE],
      append_mkinitcpio_conf |->
        [path |-> mountpoint \o <<"etc", "mkinitcpio.conf">>, mirrors_only |-> FALSE, mkdir |-> FALSE],
      write_plymouthd_conf |->
        [path |-> mountpoint \o <<"etc", "plymouth", "plymouthd.conf">>, mirrors_only |-> FALSE, mkdir |-> TRUE],
      write_loader_conf |->
        [path |-> mountpoint \o <<"boot", "loader", "loader.conf">>, mirrors_only |-> FALSE, mkdir |-> FALSE] ]

\* Path.mkdir(parents=True, exist_ok=True)
mkdir_parents(d, path) == d \cup Prefixes(path)

\* 168-187, 193-204, 207-210, 213-230, 243-247, 253-256, 262-269:
\* open() raises when the parent directory does not exist.
WriteFile ==
    \E s \in DOMAIN FileWrites :
      LET w == FileWrites[s]
          d == IF w.mkdir THEN mkdir_parents(dirs, Parent(w.path)) ELSE dirs
      IN /\ At(s)
         /\ IF w.mirrors_only /\ ~use_local_mirrors
            THEN Skip /\ UNCHANGED <<dirs, files, view>>
            ELSE /\ dirs' = d
                 /\ \E ok \in BOOLEAN :
                      IF ok /\ Parent(w.path) \in d
                      THEN /\ files' = files \cup {w.path}
                           /\ view' = [r \in Runs |->
                                         [view[r] EXCEPT !.files = (w.path :> file_text(s, r)) @@ @]]
                           /\ Complete(s)
                      ELSE UNCHANGED <<files, view>> /\ Raise(s)
         /\ UNCHANGED <<fs_ops_issued, mounts, fstab, users, executable>>
         /\ UNCHANGED <<env, pay, inp, plan, out, dsk>>

\* 239-240
MkdirEfiLinux ==
    /\ At("mkdir_efi_linux")
    /\ dirs' = mkdir_parents(dirs, mountpoint \o <<"boot", "EFI", "Linux">>)
    /\ Complete("mkdir_efi_linux")
    /\ UNCHANGED <<fs_ops_issued, mounts, files, fstab, users, executable>>
    /\ UNCHANGED <<env, pay, inp, plan, out, dsk, view>>

\* 250, 259, 295-297: arch_chroot raises on a non-zero exit status.
ChrootCommands ==
    {"plymouth_set_default_theme", "mkinitcpio_P", "fallocate_swapfile", "chmod_swapfile", "mkswap"}

ArchChroot ==
    \E s \in ChrootCommands :
      /\ At(s)
      /\ \E ok \in BOOLEAN : IF ok THEN Complete(s) ELSE Raise(s)
      /\ view' = IF s = "fallocate_swapfile" THEN Show(view, {"Creating swap file..."}) ELSE view
      /\ UNCHANGED <<env, pay, inp, plan, tgt, out, dsk>>

\* 276-277
CreateUsers ==
    /\ At("create_users")
    /\ \E ok \in BOOLEAN :
         IF ok
         THEN /\ users' = users \cup {[name |-> sudo_user, sudo |-> TRUE]}
              /\ view' = Hand(view, "create_users", "sudo_password")
              /\ Complete("create_users")
         ELSE /\ Raise("create_users")
              /\ UNCHANGED <<users, view>>
    /\ UNCHANGED <<fs_ops_issued, mounts, dirs, files, fstab, executable>>
    /\ UNCHANGED <<env, pay, inp, plan, out, dsk>>

\* 300: the swap file line
swapfile_entry ==
    [fs_spec |-> <<"swapfile">>, fs_file |-> <<"none">>, fs_vfstype |-> "swap", fs_mntops |-> "pri=5"]

AppendFstab ==
    /\ At("append_fstab")
    /\ \E ok \in BOOLEAN :
         IF ok
         THEN /\ fstab' = Append(fstab, swapfile_entry)
              /\ Complete("append_fstab")
         ELSE /\ Raise("append_fstab")
              /\ UNCHANGED fstab
    /\ UNCHANGED <<fs_ops_issued, mounts, dirs, files, users, executable>>
    /\ UNCHANGED <<env, pay, inp, plan, out, dsk, view>>

\* 304
config_target == mountpoint \o <<"opt", "archinstall">>

\* 303-306: mkdir, then copytree of /tmp/archinstall.
CopyPayload ==
    /\ At("copy_payload")
    /\ dirs' = mkdir_parents(dirs, config_target)
    /\ \E ok \in BOOLEAN, has_script \in BOOLEAN :
         IF ok
         THEN /\ payload_has_script' = has_script
              /\ files' = files \cup
                    (IF has_script THEN {config_target \o <<"post_install.sh">>} ELSE {})
              /\ Complete("copy_payload")
         ELSE /\ Raise("copy_payload")
              /\ UNCHANGED <<files, payload_has_script>>
    /\ UNCHANGED <<fs_ops_issued, mounts, fstab, users, executable>>
    /\ UNCHANGED <<env, inp, plan, out, dsk, view>>

\* The path of the script as seen inside the target root.
script_path == <<"opt", "archinstall", "post_install.sh">>

\* A path inside the chroot resolved on the host.
in_chroot(root, path) == root \o path

\* 309: chmod exits non-zero when the file is missing.
chmod_target == in_chroot(mountpoint, script_path)

ChmodPayload ==
    /\ At("chmod_payload")
    /\ \E ok \in BOOLEAN :
         IF ok /\ chmod_target \in files
         THEN /\ executable' = executable \cup {chmod_target}
              /\ Complete("chmod_payload")
         ELSE /\ Raise("chmod_payload")
              /\ UNCHANGED executable
    /\ UNCHANGED <<fs_ops_issued, mounts, dirs, files, fstab, users>>
    /\ UNCHANGED <<env, pay, inp, plan, out, dsk, view>>

\* ------------------------------------------------------ post-install script
\* Mutant: the hostname is passed instead of the username.
command_with_hostname ==
    [program |-> "arch-chroot", root |-> mountpoint, script |-> script_path, args |-> <<hostname>>]

\* 329-334
command ==
    [program |-> "arch-chroot", root |-> mountpoint, script |-> script_path, args |-> <<sudo_user>>]

Msg(text, code) == [text |-> text, code |-> code]

\* 352-357
report(rc) ==
    IF rc = 0
    THEN {Msg("Post-install script completed successfully", 0), Msg("Installation complete", 0)}
    ELSE {Msg("Post-install script failed with exit code", rc)}

\* 328-360: Popen may raise before the process exists, reading its output
\* may raise, or the process ends with a return code.  Every exception is
\* caught and printed; the script then ends normally.
RunPostInstall ==
    /\ At("run_post_install")
    /\ \/ /\ UNCHANGED <<popen, returncode>>
          /\ printed' = printed \cup {Msg("An unexpected error occurred", 0)}
       \/ /\ popen' = Append(popen, command)
          /\ UNCHANGED returncode
          /\ printed' = printed \cup {Msg("An unexpected error occurred", 0)}
       \/ \E rc \in ExitCodes :
            /\ popen' = Append(popen, command)
            /\ returncode' = rc
            /\ printed' = printed \cup report(rc)
    /\ view' = Show(view, {"--- Running post-install script ---"} \cup {m.text : m \in printed'})
    /\ done' = Append(done, "run_post_install")
    /\ pc' = pc + 1
    /\ outcome' = "exit"
    /\ exit_status' = 0
    /\ UNCHANGED failed_at
    /\ UNCHANGED <<env, pay, inp, plan, tgt, dsk>>

Next ==
    \/ UefiCheck
    \/ GetDevices
    \/ SelectDevice
    \/ PromptInputs
    \/ AddBootPartition
    \/ AddRootPartition
    \/ ConfigureEncryption
    \/ PerformFilesystemOperations
    \/ Blkid
    \/ CheckOutput
    \/ InstallerCall
    \/ MountOrderedLayout
    \/ MinimalInstallation
    \/ AddBootloader
    \/ WriteFile
    \/ MkdirEfiLinux
    \/ ArchChroot
    \/ CreateUsers
    \/ AppendFstab
    \/ CopyPayload
    \/ ChmodPayload
    \/ RunPostInstall

Spec == Init /\ [][Next]_vars

\* The script started again on a machine where the target is already mounted.
SpecRerun == InitRerun /\ [][Next]_vars
\* ================================================================== claims
\* A statement has begun: it is next, it returned, or it raised.
Begun(s) == At(s) \/ s \in Range(done) \/ failed_at = s

CompleteMsg == Msg("Installation complete", 0)

\* The statements of stages 1-10: everything before the handoff invocation.
Stages1to10 == {Script[i] : i \in 1..(Pos("run_post_install") - 1)}

\* C1: when a statement of stages 1-10 fails, the run ends there with a
\* non-zero status: no statement after the failed one has run, the
\* post-install script is never invoked, "Installation complete" is never
\* printed, and nothing happens afterwards.
C1_FailureAbortsRun ==
    /\ [](failed_at \in Stages1to10 =>
            /\ outcome = "exit"
            /\ exit_status # 0
            /\ \A i \in 1..Len(done) : Pos(done[i]) < Pos(failed_at)
            /\ popen = <<>>
            /\ CompleteMsg \notin printed)
    /\ [][(failed_at \in Stages1to10) => (vars' = vars)]_vars

C1_Witness ==
    /\ failed_at = "minimal_installation"
    /\ "mount_ordered_layout" \in Range(done)
    /\ outcome = "exit"

\* C2 (as claimed): when the post-install script exits non-zero, or invoking
\* it raises, the run ends in a failed outcome (non-zero status), the exit
\* code is reported and "Installation complete" is not printed.
C2_ScriptFailureIsFatal ==
    (outcome = "exit" /\ "run_post_install" \in Range(done) /\ returncode # 0) =>
        /\ exit_status # 0
        /\ returncode > 0 => Msg("Post-install script failed with exit code", returncode) \in printed
        /\ CompleteMsg \notin printed

\* C3: once both partitions are planned, their intervals are strictly
\* increasing in start and do not overlap, the remaining-space root
\* partition is last, and it ends no later than capacity minus 1 MiB.
C3_LayoutWithinDevice ==
    Len(partitions) = 2 =>
        /\ \A i, j \in 1..Len(partitions) : i < j =>
              /\ partitions[i].start < partitions[j].start
              /\ partitions[i].start + partitions[i].length <= partitions[j].start
        /\ "ESP" \in partitions[1].flags
        /\ partitions[Len(partitions)].name = "root"
        /\ partitions[Len(partitions)].start + partitions[Len(partitions)].length
              <= device.total_size - Size(TrailingMiB, MiB)

C3_Witness ==
    /\ Len(partitions) = 2
    /\ partitions[2].length > 0
    /\ fs_ops_issued

\* C4 (as claimed): on a device that cannot give root one sector after the
\* lead-in, the boot partition and the trailing margin, planning fails
\* before perform_filesystem_operations and no partition of length <= 0 is
\* ever added.
TooSmall(d) == d.total_size - Threshold < d.sector_size

C4_InsufficientCapacityRejected ==
    (selected_device # 0 /\ TooSmall(device)) =>
        /\ ~fs_ops_issued
        /\ "add_root_partition" \notin Range(done)
        /\ \A i \in 1..Len(partitions) : partitions[i].length > 0

\* C5: a stage begins only after the previous one returned: formatting
\* before mounting, mounting before base population, base population
\* before the bootloader install.
C5_StagesSequential ==
    /\ Begun("mount_ordered_layout") => "perform_filesystem_operations" \in Range(done)
    /\ Begun("minimal_installation") => "mount_ordered_layout" \in Range(done)
    /\ Begun("add_bootloader") => "minimal_installation" \in Range(done)

C5_Witness == At("add_bootloader") /\ Cardinality(mounts) = 2

\* C6: the post-install script is invoked at most once, and when it is,
\* the payload was copied to /mnt/opt/archinstall and then marked
\* executable, the invocation is arch-chroot into the mounted target root,
\* and its only argument is the name of the created sudo user.
C6_HandoffOnceAfterCopyAndChmod ==
    /\ Len(popen) <= 1
    /\ popen # <<>> =>
         LET c == popen[1]
             host_path == in_chroot(c.root, c.script)
         IN /\ host_path = config_target \o <<"post_install.sh">>
            /\ host_path \in files
            /\ host_path \in executable
            /\ 0 < IndexOf(done, "copy_payload")
            /\ IndexOf(done, "copy_payload") < IndexOf(done, "chmod_payload")
            /\ IndexOf(done, "chmod_payload") < IndexOf(done, "run_post_install")
            /\ c.program = "arch-chroot"
            /\ c.root = mountpoint
            /\ \E m \in mounts : m.mountpoint = <<>>
            /\ Len(c.args) = 1
            /\ [name |-> c.args[1], sudo |-> TRUE] \in users

C6_Witness ==
    /\ Len(popen) = 1
    /\ returncode = 0
    /\ sudo_user = <<"b", "o", "b">>

\* C7: once encryption is configured it has been applied exactly once, the
\* encrypted partitions are exactly the planned partitions without the ESP
\* flag, /boot is mounted from its raw partition and / from a mapped device.
C7_EncryptAllButEsp ==
    ("configure_encryption" \in Range(done)) =>
        /\ disk_encryption.applied = 1
        /\ disk_encryption.partitions = {p.name : p \in {q \in Range(partitions) : "ESP" \notin q.flags}}
        /\ \A m \in mounts :
              /\ m.mountpoint = <<"boot">> => m.device = <<"raw", "boot">>
              /\ m.mountpoint = <<>> => m.device = <<"mapper", "root">>

C7_Witness ==
    /\ "configure_encryption" \in Range(done)
    /\ Cardinality(mounts) = 2

\* C8 (as claimed): when the swap-file line is appended, the mount table
\* already holds exactly one generated entry for every live mount.
C8_MountTableGeneratedBeforeAppend ==
    ("append_fstab" \in Range(done)) =>
        \A m \in mounts : Cardinality({i \in DOMAIN fstab : fstab[i].fs_file = m.mountpoint}) = 1

\* C9 (as claimed): identity provisioning completes before the timezone is
\* set, and the timezone is set before service enablement begins.
C9_TimezoneBeforeServices ==
    /\ Begun("set_user_password") => "create_users" \in Range(done)
    /\ Begun("set_timezone") => "set_user_password" \in Range(done)
    /\ Begun("enable_service") => "set_timezone" \in Range(done)

\* C9 (amended): identity provisioning completes before service enablement
\* begins, service enablement completes before the timezone is set, and a
\* run that reaches the handoff has skipped none of them.
C9_ServicesBeforeTimezone ==
    /\ Begun("set_user_password") => "create_users" \in Range(done)
    /\ Begun("enable_service") => "set_user_password" \in Range(done)
    /\ Begun("set_timezone") => "enable_service" \in Range(done)
    /\ Begun("run_post_install") =>
          {"create_users", "set_user_password", "enable_service", "set_timezone"} \subseteq Range(done)

C9_Witness == At("set_timezone") /\ users # {}

\* C10 (as claimed): with an encrypted partition configured, the bootloader
\* install begins only after the sanity check and the key-file generation.
C10_KeyMaterialBeforeBootloader ==
    (Begun("add_bootloader") /\ disk_encryption.partitions # {}) =>
        /\ "sanity_check" \in Range(done)
        /\ "generate_key_files" \in Range(done)
\* C11 (as claimed): started on a target that is already fully mounted, the
\* mount stage performs no mount operation and leaves the mount state as
\* it was when the script started.
C11_RerunMountsNothing ==
    (mounted_before # {} /\ "mount_ordered_layout" \in Range(done)) =>
        /\ mount_ops = 0
        /\ mounts = mounted_before
\* C12: a fatal abort leaves the mounts as they are: the step that raises
\* unmounts nothing (a failing mount pass only adds the mounts it made),
\* nothing changes the mounts once the interpreter has ended, and after the
\* mount stage of this run no step ever removes a mount.
C12_AbortLeavesTargetMounted ==
    /\ [][(failed_at = "none" /\ failed_at' # "none") =>
            IF failed_at' = "mount_ordered_layout"
            THEN mounts \subseteq mounts'
            ELSE mounts' = mounts]_vars
    /\ [][(outcome = "exit") => (mounts' = mounts)]_vars
    /\ [][("mount_ordered_layout" \in Range(done)) => (mounts \subseteq mounts')]_vars

C12_Witness ==
    /\ failed_at = "minimal_installation"
    /\ outcome = "exit"
    /\ Cardinality(mounts) = 2
\* C13: with several devices, an answer that is not an integer or is out of
\* range never ends the run: the selection stays unset and the prompt is
\* shown again; the loop is left only with 1 <= choice <= len(devices), and
\* the selected device is then devices[choice - 1] (the choice-th device).
C13_RepromptUntilValid ==
    /\ failed_at # "select_device"
    /\ At("select_device") => (selected_device = 0 /\ outcome = "running")
    /\ ("select_device" \in Range(done) /\ Len(devices) > 1) =>
          /\ 1 <= choice
          /\ choice <= Len(devices)
          /\ selected_device = choice
          /\ device = devices[choice]

C13_Witness ==
    /\ "select_device" \in Range(done)
    /\ Len(devices) > 1
    /\ attempts > 0
    /\ choice = 2
\* C14: two runs that differ only in the three secrets print the same text
\* and write the same files; each secret goes only to its collaborator as
\* a Password: the passphrase to DiskEncryption, the sudo password to
\* create_users, the root password to set_user_password.
C14_SecretsWriteOnly ==
    /\ view[1].files = view[2].files
    /\ view[1].prints = view[2].prints
    /\ \A r \in Runs :
          view[r].handed \subseteq
              { <<"DiskEncryption", secrets[r].encryption_password>>,
                <<"create_users", secrets[r].sudo_password>>,
                <<"set_user_password", secrets[r].root_password>> }

C14_Witness ==
    /\ outcome = "exit"
    /\ "run_post_install" \in Range(done)
    /\ secrets[1].encryption_password # secrets[2].encryption_password
    /\ mountpoint \o <<"etc", "kernel", "cmdline">> \in DOMAIN view[1].files
    /\ Cardinality(view[1].handed) = 3
    /\ view[1].handed # view[2].handed
\* C15 (as claimed): whenever the script is about to write a file under the
\* target, the directory it writes into exists (after the mkdir that
\* precedes the write, when there is one).
C15_WritesIntoExistingDirectory ==
    \A s \in DOMAIN FileWrites :
      LET w == FileWrites[s]
      IN (At(s) /\ (w.mirrors_only => use_local_mirrors)) =>
            Parent(w.path) \in (IF w.mkdir THEN mkdir_parents(dirs, Parent(w.path)) ELSE dirs)
\* The statements that put the inputs of the unified kernel image in place.
UkiInputs ==
    { "minimal_installation", "write_cmdline", "write_preset", "add_additional_packages",
      "add_bootloader", "mkdir_efi_linux", "append_mkinitcpio_conf",
      "plymouth_set_default_theme" }

UkiInputPaths == {FileWrites[s].path : s \in UkiInputs \cap DOMAIN FileWrites}

\* C16: `mkinitcpio -P` begins only when every input is in place (base
\* system, kernel command line with the cryptdevice entry, linux.preset,
\* added packages, bootloader, /boot/EFI/Linux, HOOKS line, Plymouth
\* theme); it runs at most once, and no statement that runs after it
\* writes any of the inputs again.
C16_UkiAfterItsInputs ==
    /\ Begun("mkinitcpio_P") =>
          /\ UkiInputs \subseteq Range(done)
          /\ UkiInputPaths \subseteq DOMAIN view[1].files
          /\ view[1].files[FileWrites["write_cmdline"].path][1] = "cryptdevice=UUID="
          /\ BaseDirs \cup BootloaderDirs \cup {mountpoint \o <<"boot", "EFI", "Linux">>} \subseteq dirs
    /\ Cardinality({i \in DOMAIN done : done[i] = "mkinitcpio_P"}) <= 1
    /\ \A i, j \in DOMAIN done :
          (done[i] = "mkinitcpio_P" /\ i < j) =>
              /\ done[j] \notin UkiInputs
              /\ done[j] \in DOMAIN FileWrites => FileWrites[done[j]].path \notin UkiInputPaths

C16_Witness ==
    /\ "mkinitcpio_P" \in Range(done)
    /\ "write_loader_conf" \in Range(done)
cmdline_path == FileWrites["write_cmdline"].path

\* C17: blkid runs only after perform_filesystem_operations returned, and
\* at most once; the value it returned is the UUID created by this run and
\* still the UUID on the partition, and it is the value written to
\* /etc/kernel/cmdline.
C17_CmdlineNamesCreatedUuid ==
    /\ Begun("blkid") => "perform_filesystem_operations" \in Range(done)
    /\ Cardinality({i \in DOMAIN done : done[i] = "blkid"}) <= 1
    /\ encrypted_uuid # "unset" =>
          /\ "blkid" \in Range(done)
          /\ encrypted_uuid = created_uuid
          /\ encrypted_uuid = part_uuid
    /\ cmdline_path \in DOMAIN view[1].files =>
          /\ view[1].files[cmdline_path][2] = created_uuid
          /\ view[1].files[cmdline_path][2] = part_uuid

C17_Witness ==
    /\ cmdline_path \in DOMAIN view[1].files
    /\ "write_cmdline" \in Range(done)
    /\ part_uuid = created_uuid
====
